---- MODULE Spec2Model ----
(***************************************************************************)
(* A model of the OXRS WT32 device-integration library                     *)
(* (src/src/OXRS_WT32.cpp, src/src/OXRS_WT32.h): the JSON schema merge,    *)
(* the bring-up sequence of begin, the polling loop, the MQTT callbacks    *)
(* and the publish helpers.                                                *)
(***************************************************************************)
EXTENDS Integers, Sequences, FiniteSets, TLC

VARIABLES
  \* The build and the device, fixed for a run.
  mode,             \* "eth" (ETH_MODE defined) or "wifi"
  baseMac,          \* WiFi.macAddress(): the base MAC, six bytes
  persisted,        \* the client ID of the persisted MQTT config file, "" if none
  \* The live facts of the transport and of the broker session.
  linkUp,           \* Ethernet.linkStatus() == LinkON / WiFi.status() == WL_CONNECTED
  ip,               \* Ethernet.localIP() / WiFi.localIP(), four bytes
  mqttConnected,    \* _mqtt.connected()
  \* The globals of OXRS_WT32.cpp and the sessions they own.
  begun,            \* begin has run
  onConfig,         \* _onConfig is set (the firmware's config callback)
  onCommand,        \* _onCommand is set (the firmware's command callback)
  clientId,         \* the MQTT session's client ID
  settings,         \* the session's broker, credentials, topic prefix and suffix
  mqttSlots,        \* the callbacks registered with _mqtt and _mqttClient
  api,              \* _api and _server: begun, adopt handler, listening
  logTopic,         \* the topic _logger publishes to
  fwConfigSchema,   \* _fwConfigSchema
  fwCommandSchema,  \* _fwCommandSchema
  \* What the network holds for the device.
  inbox,            \* inbound MQTT messages not yet read by _mqtt.loop()
  pendingApi,       \* API connections not yet accepted by _server.available()
  \* The last operation: its name, argument, return value, the calls and
  \* log lines it made, and the inbound message it handled.
  lastOp, arg, ret, trace, rxMsg, rxState,
  \* _mergeJson applied to trees of its own.
  mdst,     \* the destination tree before the call
  msrc,     \* the source tree
  mres,     \* the destination after one _mergeJson(dst, src)
  mres2,    \* the destination after a second _mergeJson(dst, src)
  mstep     \* how many times _mergeJson has been applied (0, 1, 2)

mvars == <<mdst, msrc, mres, mres2, mstep>>
dvars == <<mode, baseMac, persisted, linkUp, ip, mqttConnected, begun, onConfig,
           onCommand, clientId, settings, mqttSlots, api, logTopic, fwConfigSchema,
           fwCommandSchema, inbox, pendingApi, lastOp, arg, ret, trace, rxMsg,
           rxState>>
vars == <<dvars, mvars>>

----------------------------------------------------------------------------
(* Bounds of the model. *)

\* Scalars of the JSON trees are the integers 1..MaxInt.
MaxInt == 2
\* The trees the merge is applied to have at most MaxNodes nodes.
MaxNodes == 3

----------------------------------------------------------------------------
(* JSON trees (ArduinoJson variants): a pair <<tag, value>>.  An object is  *)
(* the sequence of its <<key, value>> members in insertion order.           *)

Null == <<"null", <<>> >>
JInt(n) == <<"int", n>>
JStr(s) == <<"str", s>>
Arr(elems) == <<"arr", elems>>
Obj(members) == <<"obj", members>>
EmptyObj == Obj(<<>>)

Tag(j) == j[1]
Val(j) == j[2]
IsNull(j) == Tag(j) = "null"
IsObject(j) == Tag(j) = "obj"

KeysOf(j) == IF IsObject(j) THEN {Val(j)[i][1] : i \in 1..Len(Val(j))} ELSE {}
HasKey(j, k) == k \in KeysOf(j)
IndexOf(j, k) == CHOOSE i \in 1..Len(Val(j)) : Val(j)[i][1] = k
Member(j, k) == Val(j)[IndexOf(j, k)][2]

\* Structural equality: members are compared by key, whatever their order.
RECURSIVE JsonEq(_, _)
JsonEq(a, b) ==
  IF Tag(a) # Tag(b) THEN FALSE
  ELSE IF IsObject(a)
    THEN /\ KeysOf(a) = KeysOf(b)
         /\ \A k \in KeysOf(a) : JsonEq(Member(a, k), Member(b, k))
    ELSE a = b

\* The trees of exactly n nodes over the keys "a" and "b".
Leaves ==
  {Null} \cup {JInt(i) : i \in 1..MaxInt}
         \cup {Arr(<<JInt(1)>>), Arr(<<JInt(1), JInt(2)>>)}
RECURSIVE TreesOfSize(_)
TreesOfSize(n) ==
  IF n = 1 THEN Leaves \cup {EmptyObj}
  ELSE {Obj(<< <<k, c>> >>) : k \in {"a", "b"}, c \in TreesOfSize(n - 1)}
       \cup UNION { {Obj(<< <<"a", c1>>, <<"b", c2>> >>) :
                        c1 \in TreesOfSize(i), c2 \in TreesOfSize(n - 1 - i)}
                    : i \in 1..(n - 2) }
Trees(n) == UNION {TreesOfSize(i) : i \in 1..n}

----------------------------------------------------------------------------
(* _mergeJson (OXRS_WT32.cpp:50-63).                                        *)

\* dst.set(src) with both arrays appended instead of replaced.
setVariant_append(dst, src) ==
  IF Tag(dst) = "arr" /\ Tag(src) = "arr" THEN Arr(Val(dst) \o Val(src)) ELSE src

\* dst.set(src): the destination becomes a copy of the source.
setVariant(dst, src) == src

RECURSIVE _mergeJson(_, _)
RECURSIVE mergeMembers(_, _, _)

\* src.is<JsonObject>() is read as: the source node is an object.
\* _mergeJson(dst.getOrAddMember(key), value): getOrAddMember turns a null
\* destination into an object, finds or appends the member, and yields an
\* unbound variant (every write to which is dropped) when the destination is
\* neither null nor an object.
mergeMember(dst, key, value) ==
  LET d == IF IsNull(dst) THEN EmptyObj ELSE dst
  IN IF ~IsObject(d) THEN d
     ELSE IF HasKey(d, key)
       THEN Obj([Val(d) EXCEPT ![IndexOf(d, key)] =
                   <<key, _mergeJson(Member(d, key), value)>>])
       ELSE Obj(Append(Val(d), <<key, _mergeJson(Null, value)>>))

\* for (auto kvp : src.as<JsonObjectConst>()) from member i on.
mergeMembers(dst, members, i) ==
  IF i > Len(members) THEN dst
  ELSE mergeMembers(mergeMember(dst, members[i][1], members[i][2]), members, i + 1)

_mergeJson(dst, src) ==
  IF IsObject(src) THEN mergeMembers(dst, Val(src), 1)
  ELSE setVariant(dst, src)

----------------------------------------------------------------------------
(* Formatting: sprintf_P of the MAC and of the client ID, and the printed   *)
(* form of an IP address.                                                   *)

HexUpper == <<"0", "1", "2", "3", "4", "5", "6", "7", "8", "9",
              "A", "B", "C", "D", "E", "F">>
HexLower == <<"0", "1", "2", "3", "4", "5", "6", "7", "8", "9",
              "a", "b", "c", "d", "e", "f">>
DecDigits == <<"0", "1", "2", "3", "4", "5", "6", "7", "8", "9">>

\* %02X or %02x of one byte.
Hex2(b, digits) == digits[(b \div 16) + 1] \o digits[(b % 16) + 1]

\* "%02X:%02X:%02X:%02X:%02X:%02X" of mac[0..5].
formatMac(m) ==
  Hex2(m[1], HexUpper) \o ":" \o Hex2(m[2], HexUpper) \o ":" \o
  Hex2(m[3], HexUpper) \o ":" \o Hex2(m[4], HexUpper) \o ":" \o
  Hex2(m[5], HexUpper) \o ":" \o Hex2(m[6], HexUpper)

\* "%02x%02x%02x" of mac[3], mac[4], mac[5].
formatClientId(m) ==
  Hex2(m[4], HexLower) \o Hex2(m[5], HexLower) \o Hex2(m[6], HexLower)

RECURSIVE Dec(_)
Dec(n) == IF n < 10 THEN DecDigits[n + 1]
          ELSE Dec(n \div 10) \o DecDigits[(n % 10) + 1]

\* An IPAddress as it prints: four decimal bytes separated by dots.
formatIp(a) == Dec(a[1]) \o "." \o Dec(a[2]) \o "." \o Dec(a[3]) \o "." \o Dec(a[4])

\* mac[5] += 3 on a byte.
ethernetMac(m) == [m EXCEPT ![6] = (@ + 3) % 256]

NoIp == <<0, 0, 0, 0>>
DhcpIp == <<192, 168, 1, 50>>

----------------------------------------------------------------------------
(* The state as one record, the calls an operation makes, and the log.     *)
(* An operation is a function from state to state; mac is the byte buffer  *)
(* that begin hands to _initialiseNetwork and _initialiseMqtt.             *)

St ==
  [mode |-> mode, baseMac |-> baseMac, persisted |-> persisted,
   linkUp |-> linkUp, ip |-> ip, mqttConnected |-> mqttConnected,
   begun |-> begun, onConfig |-> onConfig, onCommand |-> onCommand,
   clientId |-> clientId, settings |-> settings, mqttSlots |-> mqttSlots,
   api |-> api,
   logTopic |-> logTopic, fwConfigSchema |-> fwConfigSchema,
   fwCommandSchema |-> fwCommandSchema, inbox |-> inbox,
   pendingApi |-> pendingApi, lastOp |-> lastOp, arg |-> arg, ret |-> ret,
   trace |-> trace, rxMsg |-> rxMsg, rxState |-> rxState,
   mac |-> <<0, 0, 0, 0, 0, 0>>]

NoMsg == <<"none", "none", Null>>

\* The state at the entry of operation `name` called with `a`.
Call(name, a) ==
  [St EXCEPT !.lastOp = name, !.arg = a, !.ret = "void", !.trace = <<>>,
             !.rxMsg = NoMsg, !.rxState = "none"]

\* A call to a collaborator, or a firmware callback, with what it was given.
emit(s, kind, x) == [s EXCEPT !.trace = Append(@, <<kind, x>>)]

\* _logger.println(msg): one line, sent to the logger's current topic.
println(s, msg) == emit(s, "log", <<s.logTopic, msg>>)

----------------------------------------------------------------------------
(* Adoption info builders (OXRS_WT32.cpp:65-167).                           *)

\* json.createNestedObject(key) and the members then assigned to it.
createNestedObject(json, key, members) ==
  LET d == IF IsNull(json) THEN EmptyObj ELSE json
  IN IF ~IsObject(d) THEN d
     ELSE IF HasKey(d, key)
       THEN Obj([Val(d) EXCEPT ![IndexOf(d, key)] = <<key, members>>])
       ELSE Obj(Append(Val(d), <<key, members>>))

_getFirmwareJson(json) ==
  createNestedObject(json, "firmware",
    Obj(<< <<"name", JStr("FW_NAME")>>,
           <<"shortName", JStr("FW_SHORT_NAME")>>,
           <<"maker", JStr("FW_MAKER")>>,
           <<"version", JStr("FW_VERSION")>> >>))

_getSystemJson(json) ==
  createNestedObject(json, "system",
    Obj(<< <<"heapUsedBytes", JStr("ESP.getHeapSize()")>>,
           <<"heapFreeBytes", JStr("ESP.getFreeHeap()")>>,
           <<"heapMaxAllocBytes", JStr("ESP.getMaxAllocHeap()")>>,
           <<"flashChipSizeBytes", JStr("ESP.getFlashChipSize()")>>,
           <<"sketchSpaceUsedBytes", JStr("ESP.getSketchSize()")>>,
           <<"sketchSpaceTotalBytes", JStr("ESP.getFreeSketchSpace()")>>,
           <<"fileSystemUsedBytes", JStr("SPIFFS.usedBytes()")>>,
           <<"fileSystemTotalBytes", JStr("SPIFFS.totalBytes()")>>,
           <<"availablePsRamBytes", JStr("ESP.getPsramSize()")>>,
           <<"freePsRamBytes", JStr("ESP.getFreePsram()")>> >>))

_getNetworkJson(s, json) ==
  createNestedObject(json, "network",
    IF s.mode = "eth"
    THEN Obj(<< <<"mode", JStr("ethernet")>>,
                <<"ip", JStr(formatIp(s.ip))>>,
                <<"mac", JStr(formatMac(ethernetMac(s.baseMac)))>> >>)
    ELSE Obj(<< <<"mode", JStr("wifi")>>,
                <<"ip", JStr(formatIp(s.ip))>>,
                <<"mac", JStr(formatMac(s.baseMac))>> >>))

\* The schema envelope: the metadata, then properties with the firmware's
\* schema (if any) merged into it.
schemaEnvelope(schema) ==
  Obj(<< <<"$schema", JStr("JSON_SCHEMA_VERSION")>>,
         <<"title", JStr("FW_SHORT_NAME")>>,
         <<"type", JStr("object")>>,
         <<"properties", IF ~IsNull(schema) THEN _mergeJson(EmptyObj, schema)
                         ELSE EmptyObj>> >>)

_getConfigSchemaJson(s, json) ==
  createNestedObject(json, "configSchema", schemaEnvelope(s.fwConfigSchema))

\* The command envelope filled from the config schema.
_getCommandSchemaJson_fromConfig(s, json) ==
  createNestedObject(json, "commandSchema", schemaEnvelope(s.fwConfigSchema))

_getCommandSchemaJson(s, json) ==
  createNestedObject(json, "commandSchema", schemaEnvelope(s.fwCommandSchema))

_apiAdopt(s, json) ==
  _getCommandSchemaJson(s,
    _getConfigSchemaJson(s,
      _getNetworkJson(s, _getSystemJson(_getFirmwareJson(json)))))

\* _api.getAdopt(json): the registered adopt handler fills the document.
getAdopt(s, json) ==
  IF s.api.onAdopt = "_apiAdopt" THEN _apiAdopt(s, json) ELSE json

\* _mqtt.getLogTopic(buffer): the session's log topic, from its client ID.
getLogTopic(s) == "log/" \o s.clientId

----------------------------------------------------------------------------
(* MQTT callbacks (OXRS_WT32.cpp:169-258).                                  *)

\* The connected line printed before the logger's topic is set.
_mqttConnected_logFirst(s, published) ==
  LET s1 == println(s, "[wt32] mqtt connected")
      s2 == emit([s1 EXCEPT !.logTopic = getLogTopic(s1)],
                 "logger.setTopic", getLogTopic(s1))
  IN emit(s2, "mqtt.publishAdopt", <<getAdopt(s2, Null), published>>)

\* The adoption document published without the firmware's schemas.
_mqttConnected_noSchemas(s, published) ==
  LET s1 == emit([s EXCEPT !.logTopic = getLogTopic(s)],
                 "logger.setTopic", getLogTopic(s))
      bare == [s1 EXCEPT !.fwConfigSchema = Null, !.fwCommandSchema = Null]
      s2 == emit(s1, "mqtt.publishAdopt", <<getAdopt(bare, Null), published>>)
  IN println(s2, "[wt32] mqtt connected")

\* `published` is what _mqtt.publishAdopt returns.
_mqttConnected(s, published) ==
  LET s1 == emit([s EXCEPT !.logTopic = getLogTopic(s)],
                 "logger.setTopic", getLogTopic(s))
      s2 == emit(s1, "mqtt.publishAdopt", <<getAdopt(s1, Null), published>>)
  IN println(s2, "[wt32] mqtt connected")

DisconnectStates ==
  {"MQTT_CONNECTION_TIMEOUT", "MQTT_CONNECTION_LOST", "MQTT_CONNECT_FAILED",
   "MQTT_DISCONNECTED", "MQTT_CONNECT_BAD_PROTOCOL", "MQTT_CONNECT_BAD_CLIENT_ID",
   "MQTT_CONNECT_UNAVAILABLE", "MQTT_CONNECT_BAD_CREDENTIALS",
   "MQTT_CONNECT_UNAUTHORIZED"}

_mqttDisconnected(s, state) ==
  CASE state = "MQTT_CONNECTION_TIMEOUT" -> println(s, "[wt32] mqtt connection timeout")
    [] state = "MQTT_CONNECTION_LOST" -> println(s, "[wt32] mqtt connection lost")
    [] state = "MQTT_CONNECT_FAILED" -> println(s, "[wt32] mqtt connect failed")
    [] state = "MQTT_DISCONNECTED" -> println(s, "[wt32] mqtt disconnected")
    [] state = "MQTT_CONNECT_BAD_PROTOCOL" -> println(s, "[wt32] mqtt bad protocol")
    [] state = "MQTT_CONNECT_BAD_CLIENT_ID" -> println(s, "[wt32] mqtt bad client id")
    [] state = "MQTT_CONNECT_UNAVAILABLE" -> println(s, "[wt32] mqtt unavailable")
    [] state = "MQTT_CONNECT_BAD_CREDENTIALS" -> println(s, "[wt32] mqtt bad credentials")
    [] state = "MQTT_CONNECT_UNAUTHORIZED" -> println(s, "[wt32] mqtt unauthorised")
    [] OTHER -> s

_mqttConfig(s, json) ==
  IF s.onConfig THEN emit(s, "fw.onConfig", json) ELSE s

_mqttCommand(s, json) ==
  IF s.onCommand THEN emit(s, "fw.onCommand", json) ELSE s

\* _mqtt.receive(topic, payload, length): the session classifies the message
\* and hands valid JSON to the handler registered for its class.  A message
\* is <<class, payload kind, document>>.
receive(s, msg) ==
  IF msg[2] = "empty" THEN [s EXCEPT !.rxState = "MQTT_RECEIVE_ZERO_LENGTH"]
  ELSE IF msg[2] = "bad" THEN [s EXCEPT !.rxState = "MQTT_RECEIVE_JSON_ERROR"]
  ELSE IF msg[1] = "conf"
    THEN IF s.mqttSlots.onConfig = "_mqttConfig"
         THEN [_mqttConfig(s, msg[3]) EXCEPT !.rxState = "MQTT_RECEIVE_OK"]
         ELSE [s EXCEPT !.rxState = "MQTT_RECEIVE_NO_CONFIG_HANDLER"]
    ELSE IF s.mqttSlots.onCommand = "_mqttCommand"
         THEN [_mqttCommand(s, msg[3]) EXCEPT !.rxState = "MQTT_RECEIVE_OK"]
         ELSE [s EXCEPT !.rxState = "MQTT_RECEIVE_NO_COMMAND_HANDLER"]

\* The switch of _mqttCallback without its break statements.
_mqttCallback_fallthrough(s, msg) ==
  LET r == receive([s EXCEPT !.rxMsg = msg], msg)
      l1 == IF r.rxState = "MQTT_RECEIVE_ZERO_LENGTH"
            THEN println(r, "[wt32] empty mqtt payload received") ELSE r
      l2 == IF r.rxState \in {"MQTT_RECEIVE_ZERO_LENGTH", "MQTT_RECEIVE_JSON_ERROR"}
            THEN println(l1, "[wt32] failed to deserialise mqtt json payload") ELSE l1
      l3 == IF r.rxState \in {"MQTT_RECEIVE_ZERO_LENGTH", "MQTT_RECEIVE_JSON_ERROR",
                              "MQTT_RECEIVE_NO_CONFIG_HANDLER"}
            THEN println(l2, "[wt32] no mqtt config handler") ELSE l2
  IN IF r.rxState \in {"MQTT_RECEIVE_ZERO_LENGTH", "MQTT_RECEIVE_JSON_ERROR",
                       "MQTT_RECEIVE_NO_CONFIG_HANDLER",
                       "MQTT_RECEIVE_NO_COMMAND_HANDLER"}
     THEN println(l3, "[wt32] no mqtt command handler") ELSE l3

_mqttCallback(s, msg) ==
  LET r == receive([s EXCEPT !.rxMsg = msg], msg)
  IN CASE r.rxState = "MQTT_RECEIVE_ZERO_LENGTH" ->
            println(r, "[wt32] empty mqtt payload received")
       [] r.rxState = "MQTT_RECEIVE_JSON_ERROR" ->
            println(r, "[wt32] failed to deserialise mqtt json payload")
       [] r.rxState = "MQTT_RECEIVE_NO_CONFIG_HANDLER" ->
            println(r, "[wt32] no mqtt config handler")
       [] r.rxState = "MQTT_RECEIVE_NO_COMMAND_HANDLER" ->
            println(r, "[wt32] no mqtt command handler")
       [] OTHER -> r

----------------------------------------------------------------------------
(* The collaborators the core drives: the MQTT session's loop, the REST     *)
(* API's start and loop.                                                    *)

\* _mqtt.loop(): a connected session reads at most one inbound message and
\* hands it to the raw-message callback; a disconnected one, once its
\* backoff has elapsed, tries to connect and tells the connected or the
\* disconnected handler.  `conn` is the outcome of the attempt ("backoff":
\* none was made), `published` what the adoption publish returns.
mqttLoop(s, conn, published) ==
  IF s.mqttConnected
  THEN IF s.inbox # <<>> /\ s.mqttSlots.callback = "_mqttCallback"
       THEN _mqttCallback([s EXCEPT !.inbox = Tail(@)], Head(s.inbox))
       ELSE s
  ELSE IF conn = "backoff" THEN s
  ELSE IF conn = "MQTT_CONNECTED"
    THEN LET c == emit([s EXCEPT !.mqttConnected = TRUE], "mqtt.connect", conn)
         IN IF c.mqttSlots.onConnected = "_mqttConnected"
            THEN _mqttConnected(c, published) ELSE c
    ELSE LET c == emit(s, "mqtt.connect", conn)
         IN IF c.mqttSlots.onDisconnected = "_mqttDisconnected"
            THEN _mqttDisconnected(c, conn) ELSE c

\* _api.begin(): the API loads the persisted MQTT configuration, which
\* replaces the session's client ID when the file holds one.
apiBegin(s) ==
  LET b == emit([s EXCEPT !.api.begun = TRUE], "api.begin", s.persisted)
  IN IF s.persisted # "" THEN [b EXCEPT !.clientId = s.persisted] ELSE b

\* _server.available() and _api.loop(&client): the oldest pending connection,
\* if any, is accepted and its request served to completion; an adopt
\* request is answered with the adoption document.
serveApi(s) ==
  IF s.pendingApi = <<>>
  THEN emit(emit(s, "server.available", "none"), "api.loop", "none")
  ELSE LET req == Head(s.pendingApi)
           a == emit(emit([s EXCEPT !.pendingApi = Tail(@)],
                          "server.available", req), "api.loop", req)
       IN IF req = "adopt" THEN emit(a, "api.adopt", getAdopt(a, Null)) ELSE a

----------------------------------------------------------------------------
(* Main program (OXRS_WT32.cpp:260-508).                                    *)

setMqttBroker(s, broker, port) ==
  emit([s EXCEPT !.settings.broker = <<broker, port>>],
       "mqtt.setBroker", <<broker, port>>)

setMqttClientId(s, id) == emit([s EXCEPT !.clientId = id], "mqtt.setClientId", id)

setMqttAuth(s, username, password) ==
  emit([s EXCEPT !.settings.auth = <<username, password>>],
       "mqtt.setAuth", <<username, password>>)

setMqttTopicPrefix(s, prefix) ==
  emit([s EXCEPT !.settings.topicPrefix = prefix], "mqtt.setTopicPrefix", prefix)

setMqttTopicSuffix(s, suffix) ==
  emit([s EXCEPT !.settings.topicSuffix = suffix], "mqtt.setTopicSuffix", suffix)

\* `net` is what the transport's bring-up meets: "ok", or for Ethernet
\* "nohw", "nocable", "dhcp", for WiFi "fail".
_initialiseNetwork(s, net) ==
  LET m == IF s.mode = "eth" THEN ethernetMac(s.baseMac) ELSE s.baseMac
      c == [emit(s, "call", "_initialiseNetwork") EXCEPT !.mac = m]
  IN IF s.mode = "eth"
     THEN LET l == println(c, "[wt32] ethernet mac address: " \o formatMac(m))
          IN IF net # "ok"
             THEN IF net = "nohw"
                    THEN println(l, "[wt32] ethernet shield not found")
                  ELSE IF net = "nocable"
                    THEN println(l, "[wt32] ethernet cable not connected")
                  ELSE println(l, "[wt32] failed to setup ethernet using DHCP")
             ELSE println([l EXCEPT !.ip = DhcpIp],
                          "[wt32] ip address: " \o formatIp(DhcpIp))
     ELSE LET l == println(c, "[wt32] wifi mac address: " \o formatMac(m))
          IN IF net # "ok"
             THEN println([l EXCEPT !.linkUp = FALSE, !.ip = NoIp],
                          "[wt32] failed to connect to wifi acces point")
             ELSE println([l EXCEPT !.linkUp = TRUE, !.ip = DhcpIp],
                          "[wt32] ip address: " \o formatIp(DhcpIp))

_initialiseMqtt(s) ==
  LET c == emit(s, "call", "_initialiseMqtt")
      d == setMqttClientId(c, formatClientId(c.mac))
      r1 == emit([d EXCEPT !.mqttSlots.onConnected = "_mqttConnected"],
                 "mqtt.onConnected", "_mqttConnected")
      r2 == emit([r1 EXCEPT !.mqttSlots.onDisconnected = "_mqttDisconnected"],
                 "mqtt.onDisconnected", "_mqttDisconnected")
      r3 == emit([r2 EXCEPT !.mqttSlots.onConfig = "_mqttConfig"],
                 "mqtt.onConfig", "_mqttConfig")
      r4 == emit([r3 EXCEPT !.mqttSlots.onCommand = "_mqttCommand"],
                 "mqtt.onCommand", "_mqttCommand")
  IN emit([r4 EXCEPT !.mqttSlots.callback = "_mqttCallback"],
          "mqttClient.setCallback", "_mqttCallback")

_initialiseRestApi(s) ==
  LET c == emit(s, "call", "_initialiseRestApi")
      b == apiBegin(c)
      a == emit([b EXCEPT !.api.onAdopt = "_apiAdopt"], "api.onAdopt", "_apiAdopt")
  IN emit([a EXCEPT !.api.listening = TRUE], "server.begin", "")

\* begin returning as soon as the network bring-up has failed.
begin_stopOnFailure(s, config, command, net) ==
  LET l == println(s, "[wt32] {firmware}")
      w == [l EXCEPT !.onConfig = config, !.onCommand = command]
  IN IF net # "ok" THEN [_initialiseNetwork(w, net) EXCEPT !.begun = TRUE]
     ELSE [_initialiseRestApi(_initialiseMqtt(_initialiseNetwork(w, net)))
             EXCEPT !.begun = TRUE]

\* begin with the REST API set up before the MQTT session.
begin_apiFirst(s, config, command, net) ==
  LET l == println(s, "[wt32] {firmware}")
      w == [l EXCEPT !.onConfig = config, !.onCommand = command]
  IN [_initialiseMqtt(_initialiseRestApi(_initialiseNetwork(w, net)))
        EXCEPT !.begun = TRUE]

begin(s, config, command, net) ==
  LET l == println(s, "[wt32] {firmware}")
      w == [l EXCEPT !.onConfig = config, !.onCommand = command]
  IN [_initialiseRestApi(_initialiseMqtt(_initialiseNetwork(w, net)))
        EXCEPT !.begun = TRUE]

_isNetworkConnected(s) == s.linkUp

\* loop without the check of the network connection.
loop_noCheck(s, conn, published) ==
  LET m == IF s.mode = "eth" THEN emit(s, "Ethernet.maintain", "") ELSE s
  IN serveApi(mqttLoop(emit(m, "mqtt.loop", ""), conn, published))

loop(s, conn, published) ==
  IF _isNetworkConnected(s)
  THEN LET m == IF s.mode = "eth" THEN emit(s, "Ethernet.maintain", "") ELSE s
       IN serveApi(mqttLoop(emit(m, "mqtt.loop", ""), conn, published))
  ELSE s

setConfigSchema(s, json) ==
  [s EXCEPT !.fwConfigSchema = _mergeJson(Null, json)]

setCommandSchema(s, json) ==
  [s EXCEPT !.fwCommandSchema = _mergeJson(Null, json)]

BoolTxt(b) == IF b THEN "true" ELSE "false"

\* publishStatus without the early exit.
publishStatus_noCheck(s, json, success) ==
  [emit(s, "mqtt.publishStatus", <<json, success>>) EXCEPT !.ret = BoolTxt(success)]

\* `success` is what _mqtt.publishStatus returns.
publishStatus(s, json, success) ==
  IF ~_isNetworkConnected(s) THEN [s EXCEPT !.ret = "false"]
  ELSE [emit(s, "mqtt.publishStatus", <<json, success>>)
          EXCEPT !.ret = BoolTxt(success)]

publishTelemetry(s, json, success) ==
  IF ~_isNetworkConnected(s) THEN [s EXCEPT !.ret = "false"]
  ELSE [emit(s, "mqtt.publishTelemetry", <<json, success>>)
          EXCEPT !.ret = BoolTxt(success)]

\* getConnectionState with the session asked before the link.
getConnectionState_sessionFirst(s) ==
  [s EXCEPT !.ret = IF s.mqttConnected THEN "CONNECTED_MQTT"
                    ELSE IF _isNetworkConnected(s) THEN "CONNECTED_IP"
                    ELSE "CONNECTED_NONE"]

getConnectionState(s) ==
  [s EXCEPT !.ret = IF _isNetworkConnected(s)
                    THEN IF s.mqttConnected THEN "CONNECTED_MQTT" ELSE "CONNECTED_IP"
                    ELSE "CONNECTED_NONE"]

\* "%03d" of one byte.
Dec3(n) ==
  DecDigits[(n \div 100) + 1] \o DecDigits[((n \div 10) % 10) + 1]
    \o DecDigits[(n % 10) + 1]

getIPAddressTxt(s) ==
  LET a == IF _isNetworkConnected(s) THEN s.ip ELSE NoIp
  IN [s EXCEPT !.ret =
        IF a[1] = 0 THEN "---.---.---.---"
        ELSE Dec3(a[1]) \o "." \o Dec3(a[2]) \o "." \o Dec3(a[3]) \o "." \o Dec3(a[4])]

\* _mqtt.getWildcardTopic(topic): the session's topic with "+" for the
\* message class: the prefix, "+", the client ID and the suffix, the prefix
\* and the suffix left out when empty.
getWildcardTopic(s) ==
  (IF s.settings.topicPrefix # "" THEN s.settings.topicPrefix \o "/" ELSE "")
    \o "+/" \o s.clientId
    \o (IF s.settings.topicSuffix # "" THEN "/" \o s.settings.topicSuffix ELSE "")

\* strcpy(buffer, ""); strncat(buffer, topic, n): at most n characters.
strncat(topic, n) == IF Len(topic) <= n THEN topic ELSE SubSeq(topic, 1, n)

getMQTTTopicTxt(s) ==
  [s EXCEPT !.ret = IF ~s.mqttConnected THEN "-/------"
                    ELSE strncat(getWildcardTopic(s), 39)]

----------------------------------------------------------------------------
(* The device: its initial state, the firmware's calls and the network.    *)

\* At most MaxInbox inbound MQTT messages wait to be read.
MaxInbox == 2
\* At most MaxPending API connections wait to be accepted.
MaxPending == 1

BaseMacs == { <<10, 27, 44, 61, 78, 95>>, <<10, 27, 44, 61, 78, 254>> }
PersistedIds == {"", "stored"}
FirmwareIds == {"fw"}
\* What the firmware passes to the schema setters: while the device runs,
\* and while it is set up.
RunSchemaInputs == { Obj(<< <<"a", JInt(1)>> >>) }
SetupSchemaInputs ==
  { Null, JInt(1), Arr(<<JInt(1)>>), EmptyObj,
    Obj(<< <<"a", JInt(1)>> >>), Obj(<< <<"b", JInt(2)>> >>),
    Obj(<< <<"a", EmptyObj>> >>),
    Obj(<< <<"a", Obj(<< <<"b", JInt(1)>> >>)>> >>) }
\* What the firmware publishes.
PublishDocs == { Obj(<< <<"a", JInt(1)>> >>) }
\* Inbound messages: the class of the topic, the kind of payload, the document.
Messages ==
  {<<c, "empty", Null>> : c \in {"conf", "cmnd"}}
  \cup {<<c, "bad", Null>> : c \in {"conf", "cmnd"}}
  \cup {<<c, "json", Obj(<< <<"a", JInt(1)>> >>)>> : c \in {"conf", "cmnd"}}
ApiRequests == {"adopt", "other"}

\* The session's settings before any setter is called.
NoSettings == [broker |-> <<"", 0>>, auth |-> <<"", "">>,
               topicPrefix |-> "", topicSuffix |-> ""]

NoSlots == [onConnected |-> "", onDisconnected |-> "", onConfig |-> "",
            onCommand |-> "", callback |-> ""]

MergeIdle ==
  /\ mdst = Null /\ msrc = Null /\ mres = Null /\ mres2 = Null /\ mstep = 0

\* The globals as constructed, before begin.
DevConstructed ==
  /\ linkUp \in (IF mode = "eth" THEN BOOLEAN ELSE {FALSE})
  /\ ip = NoIp
  /\ mqttConnected = FALSE
  /\ begun = FALSE
  /\ onConfig = FALSE
  /\ onCommand = FALSE
  /\ clientId = ""
  /\ settings = NoSettings
  /\ mqttSlots = NoSlots
  /\ api = [begun |-> FALSE, onAdopt |-> "", listening |-> FALSE]
  /\ logTopic = "log"
  /\ fwConfigSchema = Null
  /\ fwCommandSchema = Null
  /\ inbox = <<>>
  /\ pendingApi = <<>>
  /\ lastOp = "init"
  /\ arg = Null
  /\ ret = "void"
  /\ trace = <<>>
  /\ rxMsg = NoMsg
  /\ rxState = "none"

DevInit ==
  /\ mode \in {"eth", "wifi"}
  /\ baseMac \in BaseMacs
  /\ persisted \in PersistedIds
  /\ DevConstructed


\* The running device: one MAC whose last byte wraps in mac[5] += 3, no
\* persisted configuration.
Init ==
  /\ DevInit
  /\ baseMac = <<10, 27, 44, 61, 78, 254>>
  /\ persisted = ""
  /\ MergeIdle

\* The state after an operation.
Apply(t) ==
  /\ mode' = t.mode /\ baseMac' = t.baseMac /\ persisted' = t.persisted
  /\ linkUp' = t.linkUp /\ ip' = t.ip /\ mqttConnected' = t.mqttConnected
  /\ begun' = t.begun /\ onConfig' = t.onConfig /\ onCommand' = t.onCommand
  /\ clientId' = t.clientId /\ settings' = t.settings
  /\ mqttSlots' = t.mqttSlots /\ api' = t.api
  /\ logTopic' = t.logTopic /\ fwConfigSchema' = t.fwConfigSchema
  /\ fwCommandSchema' = t.fwCommandSchema /\ inbox' = t.inbox
  /\ pendingApi' = t.pendingApi /\ lastOp' = t.lastOp /\ arg' = t.arg
  /\ ret' = t.ret /\ trace' = t.trace /\ rxMsg' = t.rxMsg
  /\ rxState' = t.rxState
  /\ UNCHANGED mvars

\* What a bring-up can meet, given the transport and the cable.
NetResults ==
  IF mode = "eth"
  THEN IF linkUp THEN {"ok", "dhcp"} ELSE {"nohw", "nocable"}
  ELSE {"ok", "fail"}

Begin ==
  /\ ~begun
  /\ \E config \in BOOLEAN, command \in BOOLEAN, net \in NetResults :
       Apply(begin(Call("begin", Null), config, command, net))

Loop ==
  /\ begun
  /\ \E conn \in {"backoff", "MQTT_CONNECTED"} \cup DisconnectStates,
        published \in BOOLEAN :
       /\ (mqttConnected \/ ~linkUp) => conn = "backoff"
       /\ published => conn = "MQTT_CONNECTED"
       /\ Apply(loop(Call("loop", Null), conn, published))

SetMqttClientId ==
  \E id \in FirmwareIds :
    Apply(setMqttClientId(Call("setMqttClientId", JStr(id)), id))

\* What the firmware gives the other configuration setters.
Brokers == {<<"broker1", 1883>>, <<"broker2", 8883>>}
Credentials == {<<"user1", "secret">>, <<"user2", "secret">>}
TopicParts == {"one", "two"}

SetMqttBroker ==
  \E b \in Brokers :
    Apply(setMqttBroker(Call("setMqttBroker", JStr(b[1])), b[1], b[2]))

SetMqttAuth ==
  \E c \in Credentials :
    Apply(setMqttAuth(Call("setMqttAuth", JStr(c[1])), c[1], c[2]))

SetMqttTopicPrefix ==
  \E t \in TopicParts :
    Apply(setMqttTopicPrefix(Call("setMqttTopicPrefix", JStr(t)), t))

SetMqttTopicSuffix ==
  \E t \in TopicParts :
    Apply(setMqttTopicSuffix(Call("setMqttTopicSuffix", JStr(t)), t))

SetConfigSchema(inputs) ==
  \E json \in inputs :
    Apply(setConfigSchema(Call("setConfigSchema", json), json))

SetCommandSchema(inputs) ==
  \E json \in inputs :
    Apply(setCommandSchema(Call("setCommandSchema", json), json))

PublishStatus ==
  /\ begun
  /\ \E json \in PublishDocs, success \in BOOLEAN :
       /\ success => (linkUp /\ mqttConnected)
       /\ Apply(publishStatus(Call("publishStatus", json), json, success))

PublishTelemetry ==
  /\ begun
  /\ \E json \in PublishDocs, success \in BOOLEAN :
       /\ success => (linkUp /\ mqttConnected)
       /\ Apply(publishTelemetry(Call("publishTelemetry", json), json, success))

GetConnectionState ==
  Apply(getConnectionState(Call("getConnectionState", Null)))

GetIPAddressTxt ==
  Apply(getIPAddressTxt(Call("getIPAddressTxt", Null)))

GetMQTTTopicTxt ==
  Apply(getMQTTTopicTxt(Call("getMQTTTopicTxt", Null)))

\* The cable is pulled or plugged, the access point lost or found again.
LinkChange ==
  /\ mode = "wifi" => begun
  /\ Apply([Call("env", Null) EXCEPT
              !.linkUp = ~linkUp,
              !.ip = IF mode = "wifi" THEN (IF linkUp THEN NoIp ELSE DhcpIp) ELSE @])

\* The broker or the connection to it goes away.
MqttDrop ==
  /\ mqttConnected
  /\ Apply([Call("env", Null) EXCEPT !.mqttConnected = FALSE, !.inbox = <<>>])

\* The broker sends a message on a topic the session subscribed to.
MqttArrive ==
  /\ mqttConnected /\ linkUp
  /\ Len(inbox) < MaxInbox
  /\ \E msg \in Messages : Apply([Call("env", Null) EXCEPT !.inbox = Append(@, msg)])

\* A client connects to the REST API.
ApiConnect ==
  /\ api.listening /\ linkUp
  /\ Len(pendingApi) < MaxPending
  /\ \E req \in ApiRequests :
       Apply([Call("env", Null) EXCEPT !.pendingApi = Append(@, req)])

\* The running device.  Of the two schema setters, which run the same code
\* on two documents, the running device calls setConfigSchema; the set-up
\* below calls both.
Next ==
  \/ Begin
  \/ Loop
  \/ SetConfigSchema(RunSchemaInputs)
  \/ PublishStatus
  \/ PublishTelemetry
  \/ GetConnectionState
  \/ GetIPAddressTxt
  \/ GetMQTTTopicTxt
  \/ LinkChange
  \/ MqttDrop
  \/ MqttArrive
  \/ ApiConnect

Spec == Init /\ [][Next]_vars

\* The set-up of the device: every MAC and persisted configuration, the
\* setters with every small tree, begin, and the adoption document served
\* over the REST API; no MQTT traffic.
InitSetup == DevInit /\ MergeIdle

LoopNoSession ==
  /\ begun
  /\ Apply(loop(Call("loop", Null), "backoff", FALSE))

NextSetup ==
  \/ Begin
  \/ SetMqttClientId
  \/ SetConfigSchema(SetupSchemaInputs)
  \/ SetCommandSchema(SetupSchemaInputs)
  \/ GetConnectionState
  \/ ApiConnect
  \/ LoopNoSession

SpecSetup == InitSetup /\ [][NextSetup]_vars

\* The configuration of the session: the five setters, before and after
\* begin, on every build, MAC and persisted configuration.
NextConfig ==
  \/ Begin
  \/ SetMqttBroker
  \/ SetMqttClientId
  \/ SetMqttAuth
  \/ SetMqttTopicPrefix
  \/ SetMqttTopicSuffix

SpecConfig == InitSetup /\ [][NextConfig]_vars

----------------------------------------------------------------------------
(* The merge applied to bounded inputs.                                     *)

\* The examples of the merge's contract, beside the bounded trees.
ExampleDst ==
  { Obj(<< <<"a", Obj(<< <<"b", JInt(2)>>, <<"c", JInt(3)>> >>)>> >>),
    Obj(<< <<"x", Arr(<<JInt(9)>>)>> >>) }
ExampleSrc ==
  { Obj(<< <<"a", Obj(<< <<"b", JInt(1)>> >>)>> >>),
    Obj(<< <<"x", Arr(<<JInt(1), JInt(2)>>)>> >>) }

\* The device stays as constructed while the merge is applied.
DevIdle ==
  /\ mode = "eth" /\ baseMac = <<10, 27, 44, 61, 78, 95>> /\ persisted = ""
  /\ DevConstructed
  /\ linkUp = FALSE

InitMerge ==
  /\ DevIdle
  /\ mdst \in Trees(MaxNodes) \cup ExampleDst
  /\ msrc \in Trees(MaxNodes) \cup ExampleSrc
  /\ mres = Null
  /\ mres2 = Null
  /\ mstep = 0

MergeOnce ==
  /\ mstep = 0
  /\ mres' = _mergeJson(mdst, msrc)
  /\ mstep' = 1
  /\ UNCHANGED <<mdst, msrc, mres2>>
  /\ UNCHANGED dvars

MergeAgain ==
  /\ mstep = 1
  /\ mres2' = _mergeJson(mres, msrc)
  /\ mstep' = 2
  /\ UNCHANGED <<mdst, msrc, mres>>
  /\ UNCHANGED dvars

NextMerge == MergeOnce \/ MergeAgain

SpecMerge == InitMerge /\ [][NextMerge]_vars

----------------------------------------------------------------------------
(* The device: claims C1 to C4 and C7 to C17.                               *)

\* How many calls of one kind an operation made, and where the first is.
Count(tr, kind) == Cardinality({i \in 1..Len(tr) : tr[i][1] = kind})
Pos(tr, kind) == CHOOSE i \in 1..Len(tr) : tr[i][1] = kind
\* The private functions an operation entered, in order.
Calls(tr) ==
  LET c == SelectSeq(tr, LAMBDA e : e[1] = "call")
  IN [i \in 1..Len(c) |-> c[i][2]]
\* The firmware callbacks an operation invoked, in order.
FwCallbacks(tr) == SelectSeq(tr, LAMBDA e : e[1] \in {"fw.onConfig", "fw.onCommand"})

\* C1: getConnectionState returns CONNECTED_NONE whenever the link is down,
\* whatever the session says, CONNECTED_IP when the link is up and the
\* session is not connected, CONNECTED_MQTT when both are; after any sequence
\* of link and session changes the value is a function of the two current
\* facts alone.
C1_ConnectionState ==
  lastOp = "getConnectionState" =>
    ret = IF ~linkUp THEN "CONNECTED_NONE"
          ELSE IF mqttConnected THEN "CONNECTED_MQTT" ELSE "CONNECTED_IP"

\* getConnectionState has answered CONNECTED_NONE with the link down while
\* the session still reports connected.
C1_Witness ==
  /\ lastOp = "getConnectionState"
  /\ ~linkUp /\ mqttConnected
  /\ ret = "CONNECTED_NONE"

\* The MAC that begin hands to _initialiseMqtt.
BeginMac == IF mode = "eth" THEN ethernetMac(baseMac) ELSE baseMac

\* C2: begin runs network bring-up, MQTT setup and REST API setup once each
\* and in this order; the MAC-derived default client ID is written to the
\* session before the API's begin loads the persisted configuration, so
\* that a persisted client ID is the one in effect after begin (and the
\* default is when nothing is persisted).
C2_BeginOrder ==
  lastOp = "begin" =>
    /\ Calls(trace) = <<"_initialiseNetwork", "_initialiseMqtt", "_initialiseRestApi">>
    /\ Count(trace, "mqtt.setClientId") = 1
    /\ Count(trace, "api.begin") = 1
    /\ trace[Pos(trace, "mqtt.setClientId")][2] = formatClientId(BeginMac)
    /\ Pos(trace, "mqtt.setClientId") < Pos(trace, "api.begin")
    /\ clientId = IF persisted # "" THEN persisted ELSE formatClientId(BeginMac)

\* begin has run on a device with a persisted client ID, on Ethernet with a
\* MAC whose last byte wraps, and the persisted ID is in effect.
C2_Witness ==
  /\ lastOp = "begin"
  /\ mode = "eth" /\ baseMac[6] = 254
  /\ persisted = "stored" /\ clientId = "stored"
  /\ trace[Pos(trace, "mqtt.setClientId")][2] = "3d4e01"

\* What no call of loop with the link down may touch.
LoopFrame ==
  <<linkUp, ip, mqttConnected, begun, onConfig, onCommand, clientId, mqttSlots,
    api, logTopic, fwConfigSchema, fwCommandSchema, inbox, pendingApi>>

\* A call of loop with the link up: the maintenance (if `maintains`), then
\* one session loop, then one accept and one service of the API.
LoopUp(tr, maintains) ==
  /\ Count(tr, "Ethernet.maintain") = (IF maintains THEN 1 ELSE 0)
  /\ Count(tr, "mqtt.loop") = 1
  /\ Count(tr, "server.available") = 1
  /\ Count(tr, "api.loop") = 1
  /\ maintains => Pos(tr, "Ethernet.maintain") < Pos(tr, "mqtt.loop")
  /\ Pos(tr, "mqtt.loop") < Pos(tr, "server.available")
  /\ Pos(tr, "server.available") < Pos(tr, "api.loop")

LoopStep(maintains) ==
  lastOp' = "loop" =>
    IF linkUp
    THEN /\ LoopUp(trace', maintains)
         /\ pendingApi' = IF pendingApi = <<>> THEN <<>> ELSE Tail(pendingApi)
         /\ Len(inbox') >= Len(inbox) - 1
    ELSE /\ trace' = <<>>
         /\ rxState' = "none"
         /\ UNCHANGED LoopFrame

\* C3 as stated: with the link up every call of loop performs link
\* maintenance, then exactly one MQTT session loop, then accepts at most one
\* pending API connection and services it; with the link down it performs
\* none of these and changes nothing.
C3_LoopAsStated == [][LoopStep(TRUE)]_vars

\* C3, amended: as stated, but the link maintenance (Ethernet.maintain) is
\* performed by an Ethernet build only; a WiFi build goes straight to the
\* MQTT session loop.
C3_Loop == [][LoopStep(mode = "eth")]_vars

\* A call of loop with the link up, on Ethernet, has handled an inbound
\* message and served an adopt request.
C3_Witness ==
  /\ lastOp = "loop" /\ linkUp /\ mode = "eth"
  /\ Count(trace, "Ethernet.maintain") = 1
  /\ rxState # "none"
  /\ Count(trace, "api.adopt") = 1

\* C4: with the link down publishStatus and publishTelemetry return false
\* and never call the session's publish; with the link up they call it
\* exactly once, with the document given, and return its success flag.
C4_PublishFailClosed ==
  lastOp \in {"publishStatus", "publishTelemetry"} =>
    IF ~linkUp
    THEN ret = "false" /\ trace = <<>>
    ELSE /\ Len(trace) = 1
         /\ trace[1][1] = "mqtt." \o lastOp
         /\ trace[1][2][1] = arg
         /\ ret = BoolTxt(trace[1][2][2])

\* publishStatus has returned false with the link down while the session
\* still reports connected.
C4_Witness ==
  /\ lastOp = "publishStatus"
  /\ ~linkUp /\ mqttConnected
  /\ ret = "false" /\ trace = <<>>

\* C7: after setConfigSchema(J) the stored config schema is structurally
\* equal to J for every object tree J, whatever was stored before, and the
\* stored command schema is unchanged; symmetrically for setCommandSchema.
C7_SetSchemaStoresInput ==
  [][/\ (lastOp' = "setConfigSchema" /\ IsObject(arg')) =>
          (JsonEq(fwConfigSchema', arg') /\ fwCommandSchema' = fwCommandSchema)
     /\ (lastOp' = "setCommandSchema" /\ IsObject(arg')) =>
          (JsonEq(fwCommandSchema', arg') /\ fwConfigSchema' = fwConfigSchema)]_vars

\* C8: an inbound message is classified ZERO_LENGTH when its payload is
\* empty, JSON_ERROR when it is malformed, NO_CONFIG_HANDLER or
\* NO_COMMAND_HANDLER when it is valid JSON of a class for which the
\* firmware gave begin no callback, and otherwise the firmware's callback of
\* that class, and no other, is invoked once with the document.
C8_Classification ==
  rxMsg # NoMsg =>
    CASE rxMsg[2] = "empty" -> rxState = "MQTT_RECEIVE_ZERO_LENGTH"
      [] rxMsg[2] = "bad" -> rxState = "MQTT_RECEIVE_JSON_ERROR"
      [] rxMsg[2] = "json" /\ rxMsg[1] = "conf" ->
           IF onConfig THEN FwCallbacks(trace) = << <<"fw.onConfig", rxMsg[3]>> >>
           ELSE rxState = "MQTT_RECEIVE_NO_CONFIG_HANDLER"
      [] rxMsg[2] = "json" /\ rxMsg[1] = "cmnd" ->
           IF onCommand THEN FwCallbacks(trace) = << <<"fw.onCommand", rxMsg[3]>> >>
           ELSE rxState = "MQTT_RECEIVE_NO_COMMAND_HANDLER"

NonSuccess ==
  {"MQTT_RECEIVE_ZERO_LENGTH", "MQTT_RECEIVE_JSON_ERROR",
   "MQTT_RECEIVE_NO_CONFIG_HANDLER", "MQTT_RECEIVE_NO_COMMAND_HANDLER"}

AdoptKeys == {"firmware", "system", "network", "configSchema", "commandSchema"}

\* C10: every successful connection to the broker is followed, in this
\* order, by the logger's topic being set to the session's log topic, by
\* the publish of one adoption document, and by the connected log line,
\* which goes to the session's log topic; there is exactly one adoption
\* publish per connection.
C10_OnConnected ==
  \A i \in 1..Len(trace) :
    (trace[i][1] = "mqtt.connect" /\ trace[i][2] = "MQTT_CONNECTED") =>
      /\ Len(trace) >= i + 3
      /\ trace[i + 1] = <<"logger.setTopic", "log/" \o clientId>>
      /\ trace[i + 2][1] = "mqtt.publishAdopt"
      /\ KeysOf(trace[i + 2][2][1]) = AdoptKeys
      /\ trace[i + 3] = <<"log", <<"log/" \o clientId, "[wt32] mqtt connected">> >>
      /\ Count(trace, "mqtt.publishAdopt") = 1
      /\ Count(trace, "logger.setTopic") = 1
      /\ logTopic = "log/" \o clientId

\* A call of loop has connected the session, and the adoption document,
\* with the firmware's config schema in it, was published once.
C10_Witness ==
  /\ lastOp = "loop" /\ mqttConnected
  /\ Count(trace, "mqtt.connect") = 1
  /\ trace[Pos(trace, "mqtt.connect")][2] = "MQTT_CONNECTED"
  /\ Count(trace, "mqtt.publishAdopt") = 1
  /\ ~IsNull(fwConfigSchema)

\* The adoption documents an operation built: those it published on connect
\* and those it served over the REST API.
AdoptDocs(tr) ==
  {tr[i][2][1] : i \in {j \in 1..Len(tr) : tr[j][1] = "mqtt.publishAdopt"}}
  \cup {tr[i][2] : i \in {j \in 1..Len(tr) : tr[j][1] = "api.adopt"}}

\* The adoption document of the current state: what a build made now gives.
AdoptNow == _apiAdopt(St, Null)

\* C11: the adoption document published on connect and the one served to a
\* REST adopt request are identical for the same state: each is the
\* document of the state the operation started in, so that consecutive
\* builds in an unchanged state give the same document; and building one
\* leaves the stored config and command schemas as they were.
C11_AdoptSame ==
  [][AdoptDocs(trace') # {} =>
       /\ \A d \in AdoptDocs(trace') : d = AdoptNow
       /\ UNCHANGED <<fwConfigSchema, fwCommandSchema>>]_vars

\* One call of loop has connected the session and served an adopt request,
\* so both call sites built a document, with a firmware schema stored.
C11_Witness ==
  /\ lastOp = "loop"
  /\ Count(trace, "mqtt.publishAdopt") = 1
  /\ Count(trace, "api.adopt") = 1
  /\ ~IsNull(fwConfigSchema)

\* The keys of an object in the order of its members.
KeySeq(j) == [i \in 1..Len(Val(j)) |-> Val(j)[i][1]]

\* A schema envelope: the fixed fields, then properties, which is the stored
\* schema, or an empty object when none is stored.
IsEnvelope(e, stored) ==
  /\ IsObject(e)
  /\ KeySeq(e) = <<"$schema", "title", "type", "properties">>
  /\ Member(e, "$schema") = JStr("JSON_SCHEMA_VERSION")
  /\ Member(e, "title") = JStr("FW_SHORT_NAME")
  /\ Member(e, "type") = JStr("object")
  /\ JsonEq(Member(e, "properties"), IF IsNull(stored) THEN EmptyObj ELSE stored)

\* C12: every adoption document has the keys firmware, system, network,
\* configSchema, commandSchema in this order; each schema envelope carries
\* $schema, title, type = "object" and properties; properties is the schema
\* stored by the envelope's own setter, and an empty object when none is
\* stored, so neither envelope holds anything of the other schema.
C12_AdoptShape ==
  \A d \in AdoptDocs(trace) :
    /\ IsObject(d)
    /\ KeySeq(d) = <<"firmware", "system", "network", "configSchema", "commandSchema">>
    /\ IsEnvelope(Member(d, "configSchema"), fwConfigSchema)
    /\ IsEnvelope(Member(d, "commandSchema"), fwCommandSchema)

\* An adopt request has been served with two different object schemas
\* stored, one by each setter.
C12_Witness ==
  /\ Count(trace, "api.adopt") = 1
  /\ fwConfigSchema = Obj(<< <<"a", JInt(1)>> >>)
  /\ fwCommandSchema = Obj(<< <<"b", JInt(2)>> >>)

\* The lines _initialiseNetwork prints when the bring-up fails.
FailureLines ==
  {"[wt32] ethernet shield not found", "[wt32] ethernet cable not connected",
   "[wt32] failed to setup ethernet using DHCP",
   "[wt32] failed to connect to wifi acces point"}

\* The log lines of an operation, in order.
LogLines(tr) ==
  LET l == SelectSeq(tr, LAMBDA e : e[1] = "log")
  IN [i \in 1..Len(l) |-> l[i][2][2]]

\* A begin whose bring-up failed: it did not get to print the IP address.
BringUpFailed(tr) ==
  \A i \in 1..Len(LogLines(tr)) :
    LogLines(tr)[i] # "[wt32] ip address: " \o formatIp(DhcpIp)

\* C13: when the network bring-up fails during begin, whatever the cause,
\* the failure is logged, the bring-up is attempted once, and
\* getConnectionState called right after begin returns CONNECTED_NONE.
C13_FailedBeginNone ==
  [][/\ (lastOp' = "begin" /\ BringUpFailed(trace')) =>
          /\ Cardinality({i \in 1..Len(LogLines(trace')) :
                            LogLines(trace')[i] \in FailureLines}) = 1
          /\ Cardinality({i \in 1..Len(Calls(trace')) :
                            Calls(trace')[i] = "_initialiseNetwork"}) = 1
     /\ (lastOp = "begin" /\ BringUpFailed(trace) /\ lastOp' = "getConnectionState") =>
          ret' = "CONNECTED_NONE"]_vars

\* The setters of the session's configuration and the call each delegates to.
ConfigSetters ==
  {"setMqttBroker", "setMqttClientId", "setMqttAuth", "setMqttTopicPrefix",
   "setMqttTopicSuffix"}

\* The value in effect of the setting that setter `op` writes.
InEffect(op, id, st) ==
  CASE op = "setMqttBroker" -> st.broker
    [] op = "setMqttClientId" -> id
    [] op = "setMqttAuth" -> st.auth
    [] op = "setMqttTopicPrefix" -> st.topicPrefix
    [] op = "setMqttTopicSuffix" -> st.topicSuffix

\* C14: each configuration setter, before or after begin, does nothing but
\* put its value in effect, the latest call winning, and leaves the four
\* other settings alone; and a begin on a device without persisted
\* configuration leaves every setting the firmware has set, the client ID
\* included, in effect.
C14_SettersWin ==
  [][/\ lastOp' \in ConfigSetters =>
          /\ Len(trace') = 1
          /\ InEffect(lastOp', clientId', settings') = trace'[1][2]
          /\ \A op \in ConfigSetters \ {lastOp'} :
                InEffect(op, clientId', settings') = InEffect(op, clientId, settings)
     /\ (lastOp' = "begin" /\ persisted = "") =>
          /\ settings' = settings
          /\ clientId # "" => clientId' = clientId]_vars

\* The callbacks of the session and of the MQTT client after _initialiseMqtt.
FullSlots ==
  [onConnected |-> "_mqttConnected", onDisconnected |-> "_mqttDisconnected",
   onConfig |-> "_mqttConfig", onCommand |-> "_mqttCommand",
   callback |-> "_mqttCallback"]

\* C15: a begin whose network bring-up failed has still seeded the default
\* client ID, registered the four session callbacks and the raw-message
\* callback, registered the adopt handler and started the server; and a call
\* of loop made on a begun device with the link up runs the session's loop
\* and serves the API, without another begin.
C15_BeginCompletes ==
  /\ (lastOp = "begin" /\ BringUpFailed(trace)) =>
        /\ Calls(trace) = <<"_initialiseNetwork", "_initialiseMqtt", "_initialiseRestApi">>
        /\ Count(trace, "mqtt.setClientId") = 1
        /\ trace[Pos(trace, "mqtt.setClientId")][2] = formatClientId(BeginMac)
        /\ \A k \in {"mqtt.onConnected", "mqtt.onDisconnected", "mqtt.onConfig",
                      "mqtt.onCommand", "mqttClient.setCallback", "api.begin",
                      "api.onAdopt", "server.begin"} : Count(trace, k) = 1
        /\ mqttSlots = FullSlots
        /\ api = [begun |-> TRUE, onAdopt |-> "_apiAdopt", listening |-> TRUE]
  /\ begun => (mqttSlots = FullSlots /\ api.onAdopt = "_apiAdopt" /\ api.listening)
  /\ (lastOp = "loop" /\ linkUp) =>
        /\ Count(trace, "mqtt.loop") = 1
        /\ Count(trace, "server.available") = 1
        /\ Count(trace, "api.loop") = 1

\* On Ethernet a device whose bring-up failed (it never got an address) has
\* the link up, and one call of loop has connected the session, published
\* the adoption document and served an adopt request.
C15_Witness ==
  /\ mode = "eth" /\ begun /\ ip = NoIp
  /\ lastOp = "loop" /\ linkUp
  /\ Count(trace, "mqtt.publishAdopt") = 1
  /\ Count(trace, "api.adopt") = 1

\* C16: in every adoption document, whatever JSON values the schema
\* setters were called with, configSchema.properties and
\* commandSchema.properties are objects.
C16_PropertiesObject ==
  \A d \in AdoptDocs(trace) :
    /\ IsObject(Member(Member(d, "configSchema"), "properties"))
    /\ IsObject(Member(Member(d, "commandSchema"), "properties"))

\* What getConnectionState returns in the current state.
ConnectionState == getConnectionState(St).ret

\* C17: getMQTTTopicTxt yields the wildcard topic only when
\* getConnectionState is CONNECTED_MQTT and the placeholder "-/------" when
\* it is CONNECTED_NONE or CONNECTED_IP, the link being down while the
\* session reports connected included; getIPAddressTxt yields the
\* placeholder "---.---.---.---" when it is CONNECTED_NONE.
C17_HelpersAgree ==
  /\ lastOp = "getMQTTTopicTxt" =>
        /\ ret # "-/------" => ConnectionState = "CONNECTED_MQTT"
        /\ ConnectionState \in {"CONNECTED_NONE", "CONNECTED_IP"} => ret = "-/------"
  /\ lastOp = "getIPAddressTxt" =>
        (ConnectionState = "CONNECTED_NONE" => ret = "---.---.---.---")

----------------------------------------------------------------------------
(* The merge: claims C5 and C6.                                             *)

\* The contract of merge(destination, source) on a result r: where the
\* source is an object the result is one, with each key of the source,
\* merged below it; a source node that is no object is the result at its
\* place; a destination key the source does not have at the same place
\* keeps its value.
RECURSIVE MergeContract(_, _, _)
MergeContract(d, s, r) ==
  IF IsObject(s)
  THEN /\ IsObject(r)
       /\ \A k \in KeysOf(s) :
            /\ HasKey(r, k)
            /\ MergeContract(IF HasKey(d, k) THEN Member(d, k) ELSE Null,
                             Member(s, k), Member(r, k))
       /\ \A k \in KeysOf(d) \ KeysOf(s) :
            /\ HasKey(r, k)
            /\ JsonEq(Member(r, k), Member(d, k))
  ELSE JsonEq(r, s)

\* C5: merge(destination, source) is a deep union on objects and
\* last-writer-wins on every other node: after the merge, every source leaf
\* is the destination's value at its path, every key of a source object is
\* a key of the destination, and every destination key absent from the
\* source at the same path keeps its value.
C5_MergeDeepUnion == mstep >= 1 => MergeContract(mdst, msrc, mres)

\* The two worked examples of the merge's contract hold of _mergeJson:
\* {a:{b:1}} into {a:{b:2,c:3}} and {x:[1,2]} into {x:[9]}.
MergeExamples ==
  /\ JsonEq(_mergeJson(Obj(<< <<"a", Obj(<< <<"b", JInt(2)>>, <<"c", JInt(3)>> >>)>> >>),
                       Obj(<< <<"a", Obj(<< <<"b", JInt(1)>> >>)>> >>)),
            Obj(<< <<"a", Obj(<< <<"c", JInt(3)>>, <<"b", JInt(1)>> >>)>> >>))
  /\ JsonEq(_mergeJson(Obj(<< <<"x", Arr(<<JInt(9)>>)>> >>),
                       Obj(<< <<"x", Arr(<<JInt(1), JInt(2)>>)>> >>)),
            Obj(<< <<"x", Arr(<<JInt(1), JInt(2)>>)>> >>))

\* C6: merge is idempotent: merging the source a second time into the
\* result of the first merge gives the result of the first merge.
C6_MergeIdempotent == mstep = 2 => JsonEq(mres2, mres)

\* A second merge has run after a first one that changed a nested member
\* of an object destination.
C6_Witness ==
  /\ mstep = 2
  /\ IsObject(mdst) /\ IsObject(msrc)
  /\ ~JsonEq(mres, mdst)
  /\ \E k \in KeysOf(mdst) \cap KeysOf(msrc) : IsObject(Member(msrc, k))

====
